---- MODULE Spec2Model ----
(***************************************************************************)
(* confined_water/free_energy.py: the spatial distribution of liquid atoms *)
(* on a solid interface, for a tube (one periodic axis) and for a slab     *)
(* (two periodic axes).                                                    *)
(*                                                                         *)
(* One call of compute_spatial_distribution_of_atoms_on_interface is one   *)
(* behaviour.  The arguments and the trajectory are chosen in Init; pc is  *)
(* the position of the call inside the pipeline it dispatched to.          *)
(*                                                                         *)
(* Arithmetic is exact.  A coordinate is an integer number of 1/Scale grid *)
(* cells, Scale being the product of the divisors the code applies (the    *)
(* masses of the centers of mass and the size of the mean), so that every  *)
(* division of the code is exact on the grid.  An angle is a whole number  *)
(* of pi/8 (a sixteenth of a turn), see Arccos and Arctan2.  NaN is the    *)
(* IEEE not-a-number of numpy, kept as a value no coordinate can take.     *)
(***************************************************************************)
EXTENDS Integers, Sequences, FiniteSets

(***************************************************************************)
(* Bounds of the model.                                                    *)
(***************************************************************************)
MaxFrames == 3          \* the trajectory holds 1..MaxFrames frames
MaxEndFrame == 4        \* end_frame is drawn from 0..MaxEndFrame
MaxStartFrame == 1      \* start_frame is drawn from 0..MaxStartFrame
MaxFrequency == 2       \* frame_frequency is drawn from 1..MaxFrequency

(***************************************************************************)
(* The universe: atoms 0 and 1 are carbon (selected by "name B N C Na Cl"),*)
(* atoms 2 and 3 are oxygen (selected by "name O" and by "name O H").      *)
(***************************************************************************)
Atoms == 0 .. 3
SolidAtoms == <<0, 1>>
LiquidAtoms == <<2, 3>>

Range(s) == {s[i] : i \in 1 .. Len(s)}

\* masses in units of 4 u: carbon 12 u, oxygen 16 u
Mass(a) == IF a \in Range(SolidAtoms) THEN 3 ELSE 4

RECURSIVE SumMass(_)
SumMass(group) ==
    IF group = <<>> THEN 0 ELSE Mass(Head(group)) + SumMass(Tail(group))

AllAtoms == SolidAtoms \o LiquidAtoms

\* every divisor the code applies: the solid mass (twice: lines 99/127 and
\* 172), the total mass (line 133) and the size of the mean (line 137)
Scale == SumMass(SolidAtoms) * SumMass(SolidAtoms) * SumMass(AllAtoms) * Len(SolidAtoms)

BoxCells == 4
BoxLength == BoxCells * Scale

None == -1
NaN == -99999999

(***************************************************************************)
(* Vectors of three coordinates; axis k of the code is component k + 1.    *)
(***************************************************************************)
Vec(x, y, z) == <<x * Scale, y * Scale, z * Scale>>
Zero3 == <<0, 0, 0>>
NaN3 == <<NaN, NaN, NaN>>
\* float addition and subtraction: nan if an operand is nan
Add(x, y) == IF x = NaN \/ y = NaN THEN NaN ELSE x + y
Sub(x, y) == IF x = NaN \/ y = NaN THEN NaN ELSE x - y
VAdd(u, v) == [i \in 1 .. 3 |-> Add(u[i], v[i])]
VSub(u, v) == [i \in 1 .. 3 |-> Sub(u[i], v[i])]
At(v, k) == v[k + 1]

\* numpy: positions -= v, on every atom of the universe
ShiftAll(pos, v) == [a \in Atoms |-> VSub(pos[a], v)]

RECURSIVE WeightedSum(_, _, _)
WeightedSum(group, pos, i) ==
    IF group = <<>> THEN 0
    ELSE Mass(Head(group)) * pos[Head(group)][i] + WeightedSum(Tail(group), pos, i)

\* MDAnalysis AtomGroup.center_of_mass(): the mass-weighted mean position
CenterOfMass(group, pos) ==
    [i \in 1 .. 3 |->
        IF \E k \in 1 .. Len(group) : pos[group[k]][i] = NaN THEN NaN
        ELSE WeightedSum(group, pos, i) \div SumMass(group)]

\* MDAnalysis AtomGroup.pack_into_box(box, inplace=True) for an orthorhombic
\* cell: every coordinate is moved into [0, BoxLength)
PackIntoBox(pos) ==
    [a \in Atoms |-> [i \in 1 .. 3 |->
        IF pos[a][i] = NaN THEN NaN ELSE pos[a][i] % BoxLength]]

\* list(set(pbc_indices) ^ set([0, 1, 2])): the confined axes, ascending
RECURSIVE Ascending(_)
Ascending(S) ==
    IF S = {} THEN <<>>
    ELSE LET m == CHOOSE x \in S : \A y \in S : x <= y
         IN <<m>> \o Ascending(S \ {m})

NotPbcIndices(pbc) == Ascending({0, 1, 2} \ Range(pbc))

(***************************************************************************)
(* Angles, in units of pi/8.                                               *)
(***************************************************************************)
Sign(x) == IF x > 0 THEN 1 ELSE IF x < 0 THEN -1 ELSE 0

\* np.clip(np.dot(solid_axis, [1, 0]) / np.linalg.norm(solid_axis), -1, 1):
\* the cosine of the angle between solid_axis and the first confined axis.
\* 0.0 / 0.0 is nan in numpy (a RuntimeWarning, no exception) and np.clip
\* keeps nan.  The frames of the model keep solid_axis on a confined axis, so
\* that the cosine is -1, 0 or 1.
NormedDotProduct(solid_axis) ==
    IF solid_axis[1] = 0 /\ solid_axis[2] = 0 THEN NaN
    ELSE CASE solid_axis[2] = 0 -> Sign(solid_axis[1])
           [] solid_axis[1] = 0 -> 0

\* np.arccos on the three cosines above: 0, pi/2 and pi; nan for nan
Arccos(c) ==
    CASE c = 1 -> 0
      [] c = 0 -> 4
      [] c = -1 -> 8
      [] c = NaN -> NaN

\* np.arccos(d) if solid_axis[1] <= 0 else -np.arccos(d)
AngleAnchorFirstAxis(solid_axis) ==
    LET a == Arccos(NormedDotProduct(solid_axis))
    IN IF a = NaN THEN NaN
       ELSE IF solid_axis[2] <= 0 THEN a ELSE -a

\* cosine and sine of a whole number of quarter turns
Cos(theta) == CASE theta % 16 = 0 -> 1 [] theta % 16 = 8 -> -1 [] theta % 8 = 4 -> 0
Sin(theta) == CASE theta % 16 = 4 -> 1 [] theta % 16 = 12 -> -1 [] theta % 8 = 0 -> 0

\* np.arctan2(y, x), to the sixteenth of a turn: the eight directions of the
\* grid (the axes and the diagonals) are exact, an angle strictly between two
\* of them is kept as their bisector.  arctan2(0, 0) is 0 and arctan2(0, x)
\* is pi for x < 0 (the coordinates are differences, never the float -0.0).
Arctan2(y, x) ==
    LET ax == IF x < 0 THEN -x ELSE x
        ay == IF y < 0 THEN -y ELSE y
        first == IF ay = 0 THEN 0          \* the angle of (ax, ay), 0..4
                 ELSE IF ax = 0 THEN 4
                 ELSE IF ay < ax THEN 1
                 ELSE IF ay = ax THEN 2
                 ELSE 3
        upper == IF x >= 0 THEN first ELSE 8 - first
    IN IF x = NaN \/ y = NaN THEN NaN
       ELSE IF y >= 0 THEN upper ELSE -upper

\* the angular coordinate without the shift by pi
AngularComponentUnshifted(radius, angle) ==
    IF angle = NaN THEN NaN ELSE radius * angle

\* tube_circumference * (angle + np.pi) / (2 * np.pi) with tube_circumference
\* = 2 * np.pi * tube_radius, which is tube_radius * (angle + pi): the result
\* in units of pi/8
AngularComponent(radius, angle) ==
    IF angle = NaN THEN NaN ELSE radius * (angle + 8)

\* tube_circumference in the same unit
TubeCircumference(radius) == 16 * radius

(***************************************************************************)
(* utils.rotation_matrix(axis, theta): the axis-angle rotation (Rodrigues) *)
(* R = cos I + sin [k]x + (1 - cos) k k^T, counterclockwise about k.       *)
(***************************************************************************)
CrossMatrix(k) == << <<0, -k[3], k[2]>>, <<k[3], 0, -k[1]>>, <<-k[2], k[1], 0>> >>

RotationMatrix(axis, theta) ==
    IF theta = NaN THEN [i \in 1 .. 3 |-> NaN3]
    ELSE [i \in 1 .. 3 |-> [j \in 1 .. 3 |->
             Cos(theta) * (IF i = j THEN 1 ELSE 0)
             + Sin(theta) * CrossMatrix(axis)[i][j]
             + (1 - Cos(theta)) * axis[i] * axis[j]]]

\* one row of np.matmul(rotation_matrix, positions.T).T; nan times anything is nan
MatVec(m, v) ==
    IF m[1][1] = NaN \/ v[1] = NaN THEN NaN3
    ELSE [i \in 1 .. 3 |-> m[i][1] * v[1] + m[i][2] * v[2] + m[i][3] * v[3]]

\* periodic_vector = np.zeros(3); periodic_vector[pbc_indices] = 1
PeriodicVector(pbc) == [i \in 1 .. 3 |-> IF (i - 1) \in Range(pbc) THEN 1 ELSE 0]

(***************************************************************************)
(* _get_atom_ids_on_same_tube_axis: the indices (into solid_atoms) of the  *)
(* 2 * tube_length_in_unit_cells solid atoms nearest to solid atom 0 in    *)
(* the confined plane.                                                     *)
(***************************************************************************)
RECURSIVE SumSq(_, _, _)
SumSq(u, v, axes) ==
    IF axes = <<>> THEN 0
    ELSE (At(u, Head(axes)) - At(v, Head(axes))) * (At(u, Head(axes)) - At(v, Head(axes)))
         + SumSq(u, v, Tail(axes))

\* np.argsort of the distances (squared here: same order), ties by index
RECURSIVE ArgSort(_, _, _)
ArgSort(ids, pos, not_pbc_indices) ==
    IF ids = {} THEN <<>>
    ELSE LET key(i) == SumSq(pos[SolidAtoms[i + 1]], pos[SolidAtoms[1]], not_pbc_indices)
             m == CHOOSE i \in ids :
                     \A j \in ids : key(i) < key(j) \/ (key(i) = key(j) /\ i <= j)
         IN <<m>> \o ArgSort(ids \ {m}, pos, not_pbc_indices)

Min(a, b) == IF a < b THEN a ELSE b

GetAtomIdsOnSameTubeAxis(pos, tube_length, not_pbc_indices) ==
    LET sorted == ArgSort(0 .. Len(SolidAtoms) - 1, pos, not_pbc_indices)
    IN SubSeq(sorted, 1, Min(2 * tube_length, Len(sorted)))

(***************************************************************************)
(* The trajectory.  A frame gives every atom a position.  The two carbon   *)
(* atoms sit one cell either side of a center, the two oxygen atoms at     *)
(* offsets from it, and the whole frame may be displaced by one cell along *)
(* every axis (which carries atom 1 across the box boundary).  The offsets *)
(* are paired so that their sum lies on a coordinate axis: the mean of the *)
(* axis atoms then lies on a confined axis (or is zero), the alignment    *)
(* angle is a whole number of quarter turns and the rotated positions stay *)
(* on the grid.                                                            *)
(***************************************************************************)
LiquidOffsets ==
    { << <<1, 0, 1>>, <<-1, 0, 1>> >>,
      << <<1, 1, 0>>, <<1, -1, 0>> >>,
      << <<0, -1, -1>>, <<0, -1, 1>> >>,
      << <<0, 0, -2>>, <<0, 0, 1>> >> }

Displacements == { <<0, 0, 0>>, <<1, 1, 1>> }

Frame(t, d) ==
    [a \in Atoms |->
        CASE a = 0 -> Vec(1 + t[1], 2 + t[2], 2 + t[3])
          [] a = 1 -> Vec(3 + t[1], 2 + t[2], 2 + t[3])
          [] a = 2 -> Vec(2 + t[1] + d[1][1], 2 + t[2] + d[1][2], 2 + t[3] + d[1][3])
          [] a = 3 -> Vec(2 + t[1] + d[2][1], 2 + t[2] + d[2][2], 2 + t[3] + d[2][3])]

FramePool == {Frame(t, d) : t \in Displacements, d \in LiquidOffsets}

(***************************************************************************)
(* The arguments of the call.                                              *)
(***************************************************************************)
PbcChoices ==
    { <<>>, <<0, 1, 2>> }
    \cup { <<p>> : p \in 0 .. 2 }
    \cup { pq \in (0 .. 2) \X (0 .. 2) : pq[1] # pq[2] }

ContactLayers == { Scale }

VARIABLES
    pc,                \* "start", "loop", "translate", "rotate", "project", "done", "failed"
    pbc_indices, start_frame, end_frame, frame_frequency,
    tube_radius, tube_length_in_unit_cells, spatial_extent_contact_layer,
    n_frames,          \* len(universe.trajectory)
    frame0,            \* the first frame of the trajectory file
    positions,         \* universe.atoms.positions, the current frame in memory
    anchor_coordinates,
    indices_atoms_anchor_rotation,
    translation_from_frame0,
    COM,
    angle_anchor_first_axis,
    next_index,        \* the trajectory index the loop reads next
    count_frames,      \* frames the loop has completed
    liquid_contact_2d, \* rows <<coord1, coord2>>
    solid_2d,          \* rows <<coord1, coord2>>; solid_all of the slab, row by row
    touched,           \* what the call has done to the trajectory source
    error              \* the exception that ended the call

args == <<pbc_indices, start_frame, end_frame, frame_frequency, tube_radius,
          tube_length_in_unit_cells, spatial_extent_contact_layer, n_frames, frame0>>

locals == <<anchor_coordinates, indices_atoms_anchor_rotation,
            translation_from_frame0, COM, angle_anchor_first_axis>>

vars == <<pc, args, positions, locals, next_index, count_frames,
          liquid_contact_2d, solid_2d, touched, error>>

NoError == [kind |-> "none", line |-> 0]
Raised(kind, line) == [kind |-> kind, line |-> line]

\* the dispatch of compute_spatial_distribution_of_atoms_on_interface
Tube == Len(pbc_indices) = 1

Init ==
    /\ pc = "start"
    /\ pbc_indices \in PbcChoices
    /\ start_frame \in 0 .. MaxStartFrame
    /\ end_frame \in 0 .. MaxEndFrame
    /\ frame_frequency \in 1 .. MaxFrequency
    /\ tube_radius \in {None, 1}
    /\ tube_length_in_unit_cells \in {None, 1}
    /\ Len(pbc_indices) # 1 => tube_radius = None /\ tube_length_in_unit_cells = None
    /\ spatial_extent_contact_layer \in ContactLayers
    /\ n_frames \in 1 .. MaxFrames
    /\ frame0 \in FramePool
    /\ positions = frame0
    /\ anchor_coordinates = Zero3
    /\ indices_atoms_anchor_rotation = <<>>
    /\ translation_from_frame0 = Zero3
    /\ COM = Zero3
    /\ angle_anchor_first_axis = 0
    /\ next_index = start_frame
    /\ count_frames = 0
    /\ liquid_contact_2d = <<>>
    /\ solid_2d = <<>>
    /\ touched = {}
    /\ error = NoError

(***************************************************************************)
(* Setup: lines 86-113 of the tube pipeline, 254-274 of the slab pipeline. *)
(***************************************************************************)
Fail(kind, line) ==
    /\ pc' = "failed"
    /\ error' = Raised(kind, line)

\* int(x / y) of Python for y > 0: the quotient truncated towards zero
TruncDiv(x, y) == IF x >= 0 THEN x \div y ELSE -((-x) \div y)

\* np.zeros((n, len(solid_atoms), 2)), row by row
ZeroRows(n) == [k \in 1 .. n * Len(SolidAtoms) |-> <<0, 0>>]

\* tube: nothing is written before the loop (the wrap of line 92 is commented
\* out); 2 * None raises TypeError in _get_atom_ids_on_same_tube_axis (line
\* 343), 2 * np.pi * None raises TypeError at line 107
SetupTube ==
    /\ pc = "start"
    /\ Tube
    /\ touched' = touched \cup {"select_atoms"}
    /\ anchor_coordinates' = CenterOfMass(SolidAtoms, positions)
    /\ IF tube_length_in_unit_cells = None
       THEN /\ Fail("TypeError", 343)
            /\ UNCHANGED indices_atoms_anchor_rotation
       ELSE /\ indices_atoms_anchor_rotation' =
                 GetAtomIdsOnSameTubeAxis(positions, tube_length_in_unit_cells,
                                          NotPbcIndices(pbc_indices))
            /\ IF tube_radius = None
               THEN Fail("TypeError", 107)
               ELSE pc' = "loop" /\ UNCHANGED error
    /\ UNCHANGED <<args, positions, translation_from_frame0, COM,
                   angle_anchor_first_axis, next_index, count_frames,
                   liquid_contact_2d, solid_2d>>

\* slab, and every pbc_indices whose length is not 1: the frame in memory is
\* wrapped, the anchor is the center of mass of all atoms, solid_all is
\* allocated (np.zeros raises ValueError on a negative dimension)
SetupSlab ==
    /\ pc = "start"
    /\ ~Tube
    /\ positions' = PackIntoBox(positions)
    /\ touched' = touched \cup {"pack_into_box", "write_positions", "select_atoms"}
    /\ anchor_coordinates' = CenterOfMass(AllAtoms, positions')
    /\ LET n == TruncDiv(end_frame - start_frame, frame_frequency)
       IN IF n < 0
          THEN Fail("ValueError", 274) /\ UNCHANGED solid_2d
          ELSE pc' = "loop" /\ solid_2d' = ZeroRows(n) /\ UNCHANGED error
    /\ UNCHANGED <<args, indices_atoms_anchor_rotation, translation_from_frame0, COM,
                   angle_anchor_first_axis, next_index, count_frames,
                   liquid_contact_2d>>

(***************************************************************************)
(* The loop over (universe.trajectory[start_frame:end_frame])              *)
(* [::frame_frequency]: a slice is clamped to the trajectory, silently.    *)
(***************************************************************************)
\* the frames the slice holds: start, start + frequency, ... below both
\* end_frame and the length of the trajectory
MoreFrames == next_index < Min(end_frame, n_frames)

\* reading a frame loads its positions from the file: what was written to
\* the frame in memory before is gone
NextFrame ==
    /\ pc = "loop"
    /\ MoreFrames
    /\ \E f \in FramePool :
          /\ next_index = 0 => f = frame0
          /\ positions' = f
    /\ next_index' = next_index + frame_frequency
    /\ touched' = touched \cup {"read_frame"}
    /\ pc' = "translate"
    /\ UNCHANGED <<args, locals, count_frames, liquid_contact_2d, solid_2d, error>>

\* lines 220-224 and 316-319.  np.concatenate(solid_all) raises ValueError
\* when solid_all has no frame ("need at least one array to concatenate")
Finish ==
    /\ pc = "loop"
    /\ ~MoreFrames
    /\ IF ~Tube /\ Len(solid_2d) = 0
       THEN Fail("ValueError", 319)
       ELSE pc' = "done" /\ UNCHANGED error
    /\ UNCHANGED <<args, positions, locals, next_index, count_frames,
                   liquid_contact_2d, solid_2d, touched>>

(***************************************************************************)
(* 1. Translation: lines 127-128 (tube), 281-286 (slab).                   *)
(***************************************************************************)
\* the translation with its operands exchanged
TranslationFromFrame0Reversed(center_of_mass, anchor) == VSub(anchor, center_of_mass)

\* solid_atoms.center_of_mass() - anchor_coordinates (tube),
\* universe.atoms.center_of_mass() - anchor_coordinates (slab)
TranslationFromFrame0(center_of_mass, anchor) == VSub(center_of_mass, anchor)

TranslateTube ==
    /\ pc = "translate"
    /\ Tube
    /\ translation_from_frame0' =
          TranslationFromFrame0(CenterOfMass(SolidAtoms, positions), anchor_coordinates)
    /\ positions' = ShiftAll(positions, translation_from_frame0')
    /\ touched' = touched \cup {"write_positions"}
    /\ pc' = "rotate"
    /\ UNCHANGED <<args, anchor_coordinates, indices_atoms_anchor_rotation, COM,
                   angle_anchor_first_axis, next_index, count_frames,
                   liquid_contact_2d, solid_2d, error>>

TranslateSlab ==
    /\ pc = "translate"
    /\ ~Tube
    /\ LET wrapped == PackIntoBox(positions)
       IN /\ translation_from_frame0' =
                TranslationFromFrame0(CenterOfMass(AllAtoms, wrapped), anchor_coordinates)
          /\ positions' = ShiftAll(wrapped, translation_from_frame0')
    /\ touched' = touched \cup {"pack_into_box", "write_positions"}
    /\ pc' = "project"
    /\ UNCHANGED <<args, anchor_coordinates, indices_atoms_anchor_rotation, COM,
                   angle_anchor_first_axis, next_index, count_frames,
                   liquid_contact_2d, solid_2d, error>>

(***************************************************************************)
(* 2. Rotation (tube): lines 133-166.                                      *)
(***************************************************************************)
\* np.mean(solid_atoms.positions[indices][:, not_pbc_indices], axis=0)
RECURSIVE SumOver(_, _, _)
SumOver(ids, pos, axis) ==
    IF ids = <<>> THEN 0
    ELSE At(pos[SolidAtoms[Head(ids) + 1]], axis) + SumOver(Tail(ids), pos, axis)

SolidAxis(pos, ids, not_pbc_indices) ==
    [k \in 1 .. Len(not_pbc_indices) |->
        SumOver(ids, pos, not_pbc_indices[k]) \div Len(ids)]

Rotate ==
    /\ pc = "rotate"
    /\ COM' = CenterOfMass(AllAtoms, positions)
    /\ LET centred == ShiftAll(positions, COM')
           solid_axis == SolidAxis(centred, indices_atoms_anchor_rotation,
                                   NotPbcIndices(pbc_indices))
           rotation_matrix == RotationMatrix(PeriodicVector(pbc_indices),
                                             angle_anchor_first_axis')
       IN /\ angle_anchor_first_axis' = AngleAnchorFirstAxis(solid_axis)
          /\ positions' = [a \in Atoms |-> VAdd(MatVec(rotation_matrix, centred[a]), COM')]
    /\ pc' = "project"
    /\ UNCHANGED <<args, anchor_coordinates, indices_atoms_anchor_rotation,
                   translation_from_frame0, next_index, count_frames,
                   liquid_contact_2d, solid_2d, touched, error>>

(***************************************************************************)
(* Wrap, classify, project and accumulate (tube): lines 169-218.           *)
(***************************************************************************)
\* np.linalg.norm(v[not_pbc_indices]) >= spatial_extent_contact_layer, on the
\* squares; a comparison with nan is False
InContactTube(v, not_pbc_indices, cutoff) ==
    /\ \A k \in 1 .. 3 : v[k] # NaN
    /\ SumSq(v, Zero3, not_pbc_indices) >= cutoff * cutoff

\* <<position along the periodic axis, angular coordinate>> of position p
\* seen from the solid center of mass
TubeRow(periodic, p, solid_COM, not_pbc_indices, radius) ==
    LET v == VSub(p, solid_COM)
    IN << periodic,
          AngularComponent(radius, Arctan2(At(v, not_pbc_indices[2]),
                                           At(v, not_pbc_indices[1]))) >>

ProjectTube ==
    /\ pc = "project"
    /\ Tube
    /\ positions' = PackIntoBox(positions)
    /\ LET not_pbc_indices == NotPbcIndices(pbc_indices)
           p == pbc_indices[1]
           solid_COM == CenterOfMass(SolidAtoms, positions')
           in_contact == SelectSeq(LiquidAtoms,
                            LAMBDA a : InContactTube(VSub(positions'[a], solid_COM),
                                                     not_pbc_indices,
                                                     spatial_extent_contact_layer))
       IN /\ liquid_contact_2d' = liquid_contact_2d \o
                [k \in 1 .. Len(in_contact) |->
                    TubeRow(Add(At(VSub(positions'[in_contact[k]], solid_COM), p),
                                At(solid_COM, p)),
                            positions'[in_contact[k]], solid_COM, not_pbc_indices,
                            tube_radius)]
          /\ solid_2d' = solid_2d \o
                [k \in 1 .. Len(SolidAtoms) |->
                    TubeRow(At(positions'[SolidAtoms[k]], p),
                            positions'[SolidAtoms[k]], solid_COM, not_pbc_indices,
                            tube_radius)]
    /\ touched' = touched \cup {"pack_into_box"}
    /\ count_frames' = count_frames + 1
    /\ pc' = "loop"
    /\ UNCHANGED <<args, locals, next_index, error>>

(***************************************************************************)
(* Wrap, classify, project and accumulate (slab): lines 289-314.           *)
(***************************************************************************)
\* (liquid_atoms.positions[:, not_pbc_indices] - solid_COM[not_pbc_indices])
\* .flatten(): row-major, one entry per liquid atom and confined axis
PerpendicularDistance(pos, solid_COM, not_pbc_indices) ==
    LET w == Len(not_pbc_indices)
    IN [j \in 1 .. Len(LiquidAtoms) * w |->
           LET a == LiquidAtoms[((j - 1) \div w) + 1]
               k == not_pbc_indices[((j - 1) % w) + 1]
           IN Sub(At(pos[a], k), At(solid_COM, k))]

\* np.where(distance <= cutoff): the indices (from 0) of the entries that are
\* not above the cutoff
RECURSIVE WhereNotAbove(_, _, _)
WhereNotAbove(distance, cutoff, j) ==
    IF j > Len(distance) THEN <<>>
    ELSE (IF distance[j] <= cutoff THEN <<j - 1>> ELSE <<>>)
         \o WhereNotAbove(distance, cutoff, j + 1)

\* atoms.positions[:, pbc_indices]: one column per entry of pbc_indices
Columns(p, pbc) == [k \in 1 .. Len(pbc) |-> At(p, pbc[k])]

ProjectSlab ==
    /\ pc = "project"
    /\ ~Tube
    /\ positions' = PackIntoBox(positions)
    /\ touched' = touched \cup {"pack_into_box"}
    /\ LET not_pbc_indices == NotPbcIndices(pbc_indices)
           solid_COM == CenterOfMass(SolidAtoms, positions')
           where == WhereNotAbove(
                       PerpendicularDistance(positions', solid_COM, not_pbc_indices),
                       spatial_extent_contact_layer, 1)
           \* liquid_atoms[np.where(...)].positions[:, pbc_indices]
           in_contact == [k \in 1 .. Len(where) |->
                             Columns(positions'[LiquidAtoms[where[k] + 1]], pbc_indices)]
           width == Len(pbc_indices)
           first == Len(solid_2d) \div Len(SolidAtoms)   \* frames solid_all holds
       IN IF \E k \in 1 .. Len(where) : where[k] >= Len(LiquidAtoms)
          THEN \* an index of the flattened array that is no atom of the group
               Fail("IndexError", 300) /\ UNCHANGED <<liquid_contact_2d, solid_2d, count_frames>>
          ELSE IF width = 0 \/ pbc_indices[1] >= width
          THEN \* liquid_atoms_in_contact_positions[:, pbc_indices[0]]
               Fail("IndexError", 306) /\ UNCHANGED <<liquid_contact_2d, solid_2d, count_frames>>
          ELSE IF pbc_indices[2] >= width
          THEN \* liquid_atoms_in_contact_positions[:, pbc_indices[1]]
               Fail("IndexError", 310) /\ UNCHANGED <<liquid_contact_2d, solid_2d, count_frames>>
          ELSE IF count_frames >= first
          THEN \* solid_all[count_frames] beyond the frames allocated
               Fail("IndexError", 314) /\ UNCHANGED <<liquid_contact_2d, solid_2d, count_frames>>
          ELSE IF width # 2
          THEN \* (S, width) does not broadcast into (S, 2)
               Fail("ValueError", 314) /\ UNCHANGED <<liquid_contact_2d, solid_2d, count_frames>>
          ELSE /\ liquid_contact_2d' = liquid_contact_2d \o
                     [k \in 1 .. Len(in_contact) |->
                         << in_contact[k][pbc_indices[1] + 1],
                            in_contact[k][pbc_indices[2] + 1] >>]
               /\ solid_2d' =
                     [r \in 1 .. Len(solid_2d) |->
                         LET k == r - count_frames * Len(SolidAtoms)
                         IN IF k \in 1 .. Len(SolidAtoms)
                            THEN Columns(positions'[SolidAtoms[k]], pbc_indices)
                            ELSE solid_2d[r]]
               /\ count_frames' = count_frames + 1
               /\ pc' = "loop"
               /\ UNCHANGED error
    /\ UNCHANGED <<args, locals, next_index>>

Next ==
    \/ SetupTube
    \/ SetupSlab
    \/ NextFrame
    \/ Finish
    \/ TranslateTube
    \/ TranslateSlab
    \/ Rotate
    \/ ProjectTube
    \/ ProjectSlab

Spec == Init /\ [][Next]_vars

(***************************************************************************)
(* The claims.                                                             *)
(***************************************************************************)
Returned == pc = "done"
Failed == pc = "failed"
Slab == Len(pbc_indices) = 2

\* the second column of a row is the angular coordinate
Rows == Range(liquid_contact_2d) \cup Range(solid_2d)

\* the frames of range(start_frame, end_frame, frame_frequency)
RequestedFrames ==
    Cardinality({i \in start_frame .. end_frame - 1 :
                    (i - start_frame) % frame_frequency = 0})

\* C1: with pbc_indices of length 3 or 0 the call raises a configuration
\* error before the trajectory source is touched: nothing is selected,
\* wrapped, read or written, and nothing is returned.
C1_ConfigurationErrorBeforeTouch ==
    Len(pbc_indices) \in {0, 3} =>
        /\ touched = {}
        /\ pc \in {"start", "failed"}
        /\ Failed => error.kind = "ConfigurationError"

\* C2: the slab call returns, and the solid point sequence it returns has
\* exactly F x S rows for the F frames the loop processed and the S solid
\* atoms.  (A failure on the liquid columns, lines 306 and 310, is the
\* subject of C3.)
C2_FrameCountConservation ==
    Slab =>
        /\ Failed => error.line \in {306, 310}
        /\ Returned => Len(solid_2d) = count_frames * Len(SolidAtoms)

\* the liquid atoms whose confined offset from the solid center of mass is
\* not above the cutoff, in atom order
SlabInContact(pos) ==
    LET k == NotPbcIndices(pbc_indices)[1]
        solid_COM == CenterOfMass(SolidAtoms, pos)
    IN SelectSeq(LiquidAtoms,
          LAMBDA a : At(pos[a], k) - At(solid_COM, k) <= spatial_extent_contact_layer)

\* C3: for every pair of distinct periodic axes (p0, p1) a frame of the slab
\* pipeline does not fail on the liquid columns and appends, for every liquid
\* atom in contact, the row (position[p0], position[p1]).
C3_SlabRowsAreRawPeriodicCoordinates ==
    [][(pc = "project" /\ Slab) =>
          /\ error'.line \notin {306, 310}
          /\ pc' = "loop" =>
                liquid_contact_2d' = liquid_contact_2d \o
                    [k \in 1 .. Len(SlabInContact(positions')) |->
                        << At(positions'[SlabInContact(positions')[k]], pbc_indices[1]),
                           At(positions'[SlabInContact(positions')[k]], pbc_indices[2]) >>]]_vars

\* the liquid atoms within the band |offset| <= cutoff around the solid
SlabInBand(pos) ==
    LET k == NotPbcIndices(pbc_indices)[1]
        solid_COM == CenterOfMass(SolidAtoms, pos)
    IN {a \in Range(LiquidAtoms) :
          /\ At(pos[a], k) - At(solid_COM, k) <= spatial_extent_contact_layer
          /\ At(solid_COM, k) - At(pos[a], k) <= spatial_extent_contact_layer}

\* C4: a frame of the slab pipeline appends one row for every liquid atom
\* whose confined offset d from the solid center of mass satisfies
\* -cutoff <= d <= cutoff, and none for any other atom.
C4_SlabBandIsSymmetric ==
    [][(pc = "project" /\ Slab /\ pc' = "loop") =>
          Len(liquid_contact_2d') - Len(liquid_contact_2d)
             = Cardinality(SlabInBand(positions'))]_vars

\* C5: a call whose frame range extends past the end of the trajectory does
\* not return a result of fewer frames than requested (the code has no
\* warning to emit: a return is a silent one).
C5_NoSilentTruncation ==
    (Returned /\ Len(pbc_indices) \in {1, 2} /\ end_frame > n_frames) =>
        count_frames = RequestedFrames

\* the state right after the translation step of a frame
AfterTranslation == (Tube /\ pc = "rotate") \/ (Slab /\ pc = "project")

\* C6 as claimed: in both pipelines, right after the translation step the
\* center of mass of the solid group is the anchor.
C6_SolidCenterOfMassOnAnchor ==
    AfterTranslation => CenterOfMass(SolidAtoms, positions) = anchor_coordinates

\* C6 as amended: right after the translation step the center of mass of
\* the group the anchor was taken from is the anchor: the solid group in the
\* tube pipeline, all atoms in the slab pipeline.
C6_AnchorGroupCenterOfMassOnAnchor ==
    /\ (Tube /\ pc = "rotate") =>
          CenterOfMass(SolidAtoms, positions) = anchor_coordinates
    /\ (Slab /\ pc = "project") =>
          CenterOfMass(AllAtoms, positions) = anchor_coordinates

\* a slab frame that had to be moved, and whose solid is then off the anchor
C6_Witness ==
    /\ Slab /\ pc = "project"
    /\ translation_from_frame0 # Zero3
    /\ CenterOfMass(AllAtoms, positions) = anchor_coordinates
    /\ CenterOfMass(SolidAtoms, positions) # anchor_coordinates

\* C7: with one periodic axis and tube_radius or tube_length_in_unit_cells
\* missing, the call fails with a configuration error before any frame is
\* read and before any position is written, and returns nothing.
C7_MissingTubeParameterIsConfigurationError ==
    (Tube /\ (tube_radius = None \/ tube_length_in_unit_cells = None)) =>
        /\ pc \in {"start", "failed"}
        /\ touched \subseteq {"select_atoms"}
        /\ Failed => error.kind = "ConfigurationError"

\* C8: the tube pipeline never continues with an undefined (NaN) angle, and
\* no undefined value reaches the atom positions or the point sets.
C8_NoNaN ==
    Tube =>
        /\ angle_anchor_first_axis # NaN
        /\ \A a \in Atoms : \A i \in 1 .. 3 : positions[a][i] # NaN
        /\ \A r \in Rows : r[1] # NaN /\ r[2] # NaN

\* C9 as claimed: every defined angular coordinate c of the tube output
\* satisfies 0 <= c < circumference.
C9_AngularCoordinateBelowCircumference ==
    Tube => \A r \in Rows :
               r[2] # NaN => 0 <= r[2] /\ r[2] < TubeCircumference(tube_radius)

\* C9 as amended: every defined angular coordinate c of the tube output
\* satisfies 0 <= c <= circumference (the angle pi gives the circumference).
C9_AngularCoordinateWithinCircumference ==
    Tube => \A r \in Rows :
               r[2] # NaN => 0 <= r[2] /\ r[2] <= TubeCircumference(tube_radius)

\* an output row of an atom at the angle pi: its coordinate is the circumference
C9_Witness ==
    /\ Tube /\ pc = "loop" /\ count_frames >= 1
    /\ \E r \in Rows : r[2] = TubeCircumference(tube_radius)

\* C10: right after the rotation step of a frame with a defined angle, the
\* mean of the axis atoms relative to the center of mass of all atoms, in
\* the confined axes, lies along (1, 0).
C10_AxisAtomsOnReferenceDirection ==
    (Tube /\ pc = "project" /\ angle_anchor_first_axis # NaN) =>
        LET solid_axis == SolidAxis(ShiftAll(positions, COM),
                                    indices_atoms_anchor_rotation,
                                    NotPbcIndices(pbc_indices))
        IN solid_axis[2] = 0 /\ solid_axis[1] > 0

====
